---- MODULE Spec2Model ----
(***************************************************************************)
(* The Xiaomi air conditioning companion climate entity                    *)
(* (custom_components/xiaomi_miio_airconditioningcompanion/climate.py):    *)
(* the cached controller state, the poll, the setters, the dispatch        *)
(* wrapper and the configuration composer.                                 *)
(*                                                                         *)
(* Every handler is an operator from the entity's fields and the device's  *)
(* responses to the new fields, the device calls it issued and the         *)
(* exception that escaped it; an action applies one handler.               *)
(***************************************************************************)
EXTENDS Integers, Sequences, FiniteSets, TLC

----------------------------------------------------------------------------
\* Bounds of the model.

\* Temperatures are integers counting 1/Scale of a degree, so that a setter
\* can be handed a fractional temperature.
Scale == 2

\* The largest repeat count handed to async_send_command.
MaxRepeat == 2

\* The largest timeout, in seconds, handed to async_learn_command.
MaxTimeout == 2

\* The clock stops at this many seconds after the entity was added.
MaxClock == 3

----------------------------------------------------------------------------
\* Program constants.

\* CONF_MIN_TEMP / CONF_MAX_TEMP defaults, in degrees.
MinTemp == 16
MaxTemp == 30

\* Python's None in an integer-valued field (_target_temperature).
NoTemp == -1

\* SUCCESS = ["ok"]
SUCCESS == "ok"

\* What a device call can answer: the success token, another response, or a
\* raised miio.DeviceException.
Responses == {SUCCESS, "error", "DeviceException"}

----------------------------------------------------------------------------
\* Mode translation.

\* class OperationMode(enum.Enum): member name -> value (an HVACMode).
OperationMode ==
    [Heat |-> "heat", Cool |-> "cool", Auto |-> "auto",
     Dehumidify |-> "dry", Ventilate |-> "fan_only", Off |-> "off"]

\* OperationMode(value).name; a value that is no member's raises ValueError.
OperationModeName(value) ==
    IF \E n \in DOMAIN OperationMode : OperationMode[n] = value
    THEN CHOOSE n \in DOMAIN OperationMode : OperationMode[n] = value
    ELSE "ValueError"

\* The member names of miio.airconditioningcompanion.OperationMode, the
\* device's enumeration: it has no Off member.
MiioOperationMode == {"Heat", "Cool", "Auto", "Dehumidify", "Ventilate"}

\* The hvac modes: the values of OperationMode.
HvacModes == {OperationMode[n] : n \in DOMAIN OperationMode}

\* OperationMode[state.mode.name].value: the hvac mode of a device mode.
AbstractOf(mode) == OperationMode[mode]

\* MiioOperationMode[OperationMode(hvac_mode).name] with a mode the device
\* does not have sent as Auto.
DeviceOf_defaults_to_auto(hvac_mode) ==
    LET name == OperationModeName(hvac_mode) IN
    IF name \in MiioOperationMode THEN name ELSE "Auto"

\* MiioOperationMode[OperationMode(hvac_mode).name]: the device mode of an
\* hvac mode, or the exception raised.
DeviceOf(hvac_mode) ==
    LET name == OperationModeName(hvac_mode) IN
    IF name = "ValueError" THEN "ValueError"
    ELSE IF name \in MiioOperationMode THEN name
    ELSE "KeyError"

\* int(t): truncation to whole degrees (t >= 0 here).
IntTemp(t) == (t \div Scale) * Scale

----------------------------------------------------------------------------
\* Inputs.

\* The device operation modes a poll reports in this model.
PolledModes == {"Heat", "Cool"}
\* miio FanSpeed / SwingMode members handed to the setters and reported.
FanSpeeds == {"Low", "High"}
SwingModes == {"On", "Off"}
\* air_condition_model.hex() values the device reports.
Models == {"m1", "m2"}
\* Temperatures handed to async_set_temperature: one degree below the
\* minimum, the minimum, the maximum, and a fractional value above it.
SetTemps == {(MinTemp - 1) * Scale, MinTemp * Scale, MaxTemp * Scale,
             MaxTemp * Scale + 1}
\* hvac modes handed to async_set_hvac_mode and async_set_temperature.
SetModes == {"off", "heat", "cool"}
\* Codes handed to async_send_command, as sequences of characters: a
\* configuration-protocol code, a learned infrared code, and another one.
Commands == {<<"0", "1", "A">>, <<"F", "E", "A">>, <<"A", "B">>}

\* The AirConditioningCompanionStatus a successful status() returns: the
\* model, the power and the mode vary; the other settings are one reading.
Snapshots ==
    [air_condition_model : Models, power : {"on", "off"}, mode : PolledModes,
     target_temperature : {MinTemp * Scale}, fan_speed : {"Low"},
     swing_mode : {"On"}, led : {"on"}, load_power : {0}]

NoSnapshot ==
    [air_condition_model |-> "None", power |-> "None", mode |-> "None",
     target_temperature |-> NoTemp, fan_speed |-> "None",
     swing_mode |-> "None", led |-> "None", load_power |-> 0]

----------------------------------------------------------------------------
\* Device calls, as the entity issues them.

\* No status() call was made.
NoStatus == [fault |-> FALSE, state |-> NoSnapshot]

\* The arguments of a device call by name; `positions` lists the names in
\* the order in which the call passes them.
NoArgs ==
    [model |-> "None", power |-> "None", mode |-> "None",
     temperature |-> NoTemp, fan |-> "None", swing |-> "None",
     led |-> "None", code |-> <<>>, positions |-> <<>>]

DeviceCall(name, args, result) ==
    [name |-> name, args |-> args, result |-> result]

----------------------------------------------------------------------------
\* The event loop runs one handler at a time.  While op names a handler, that
\* handler has just run and args, polled, calls, raised and prior_state
\* record the run; Return hands control back to the loop (op = "None").
VARIABLES
    self,         \* the entity's fields
    op,           \* the handler that has just run, or "None"
    args,         \* its arguments
    polled,       \* what status() returned to it, if it polled
    calls,        \* the device calls it issued, in order
    raised,       \* the exception that escaped it, or "None"
    prior_state,  \* self._state when it started
    last_fault,   \* the most recent device call raised DeviceException
    learners,     \* the async_learn_command coroutines, one per service call
    now,          \* utcnow(), in seconds
    flight        \* a poll and a setter suspended in their device calls

vars == <<self, op, args, polled, calls, raised, prior_state, last_fault,
          learners, now, flight>>

\* No sensor state: new_state is None (the sensor entity was removed).
NoSensorState == [exists |-> FALSE, state |-> "None", unit |-> "None"]

NoOpArgs ==
    [temperature |-> NoTemp, hvac_mode |-> "None", fan_mode |-> "None",
     swing_mode |-> "None", command |-> <<>>, repeat |-> 0,
     new_state |-> NoSensorState]

\* No time read yet (start_time before line 552 has run).
NoTime == -1

\* No persistent notification created.
NoNotice == [text |-> "None", code |-> <<>>]

\* An async_learn_command coroutine: where it is suspended (pc), its timeout
\* argument, its start_time, when its sleep ends, the learning calls it has
\* issued to the device, the notification it has created, the message the
\* learn_result it has last awaited returned and the time at which it did,
\* and whether one of its calls raised DeviceException.
NotCalled ==
    [pc |-> "idle", timeout |-> 0, start_time |-> NoTime, wake |-> NoTime,
     log |-> <<>>, notice |-> NoNotice, message |-> <<>>,
     result_time |-> NoTime, fault |-> FALSE]

\* Two xiaomi_miio_learn_command service calls are made to the entity.
Learners == {"first", "second"}

\* The fields as __init__ leaves them (lines 238-257).
Constructed ==
    [_available |-> FALSE,
     _state |-> "None",
     _state_attrs |-> [ac_model |-> "None", load_power |-> NoTemp,
                       temperature |-> NoTemp, swing_mode |-> "None",
                       fan_mode |-> "None", hvac_mode |-> "None",
                       led |-> "None"],
     _max_temp |-> MaxTemp * Scale,
     _min_temp |-> MinTemp * Scale,
     _current_temperature |-> NoTemp,
     _swing_mode |-> "None",
     _last_on_operation |-> "None",
     _hvac_mode |-> "None",
     _fan_mode |-> "None",
     _air_condition_model |-> "None",
     _target_temperature |-> NoTemp]

\* An async_update coroutine and a setter coroutine: where each is (idle,
\* suspended in its device call, done), what status() returned to the poll,
\* the setter and its arguments, which of the two device calls returned
\* last, and whether both were in flight at one time.
NoFlight ==
    [poll |-> "idle", status |-> NoStatus,
     setter |-> "idle", name |-> "None", args |-> NoOpArgs,
     last |-> "None", overlapped |-> FALSE]

\* XiaomiAirConditioningCompanion.__init__
Init ==
    /\ learners = [i \in Learners |-> NotCalled]
    /\ now = 0
    /\ flight = NoFlight
    /\ self = Constructed
    /\ op = "None"
    /\ args = NoOpArgs
    /\ polled = NoStatus
    /\ calls = <<>>
    /\ raised = "None"
    /\ last_fault = FALSE
    /\ prior_state = "None"

----------------------------------------------------------------------------
\* The handlers.  Each yields [self, calls, raised].

Outcome(s, cs, exc) == [self |-> s, calls |-> cs, raised |-> exc]

\* _try_command without line 326: a DeviceException is logged only.
_try_command_logs_only(s, response) ==
    [self |-> s, result |-> (response = SUCCESS)]

\* _try_command with a response other than SUCCESS handled as the
\* DeviceException is.
_try_command_mismatch_faults(s, response) ==
    IF response # SUCCESS
    THEN [self |-> [s EXCEPT !._available = FALSE], result |-> FALSE]
    ELSE [self |-> s, result |-> TRUE]

\* _try_command: the one device call, its answer compared with SUCCESS; a
\* DeviceException marks the entity unavailable.
_try_command(s, response) ==
    IF response = "DeviceException"
    THEN [self |-> [s EXCEPT !._available = FALSE], result |-> FALSE]
    ELSE [self |-> s, result |-> (response = SUCCESS)]

\* async_turn_on
async_turn_on(s, response) ==
    LET r == _try_command(s, response) IN
    Outcome(IF r.result THEN [r.self EXCEPT !._state = "True"] ELSE r.self,
            <<DeviceCall("on", NoArgs, response)>>, "None")

\* async_turn_off
async_turn_off(s, response) ==
    LET r == _try_command(s, response) IN
    Outcome(IF r.result THEN [r.self EXCEPT !._state = "False"] ELSE r.self,
            <<DeviceCall("off", NoArgs, response)>>, "None")

\* state.mode.name.lower(), state.fan_speed.name.lower(), ...
Lower ==
    [Heat |-> "heat", Cool |-> "cool", Auto |-> "auto",
     Dehumidify |-> "dehumidify", Ventilate |-> "ventilate",
     Low |-> "low", Medium |-> "medium", High |-> "high",
     On |-> "on", Off |-> "off"]

\* MergeStatus keeping a fan mode that was set locally.
MergeStatus_keeps_pending(s, state) ==
    LET last_on == OperationMode[state.mode] IN
    [s EXCEPT
        !._last_on_operation = last_on,
        !._hvac_mode = IF state.power = "off" THEN "off" ELSE last_on,
        !._state = IF state.power = "off" THEN "False" ELSE "True",
        !._target_temperature = state.target_temperature,
        !._fan_mode = IF s._fan_mode = "None" THEN state.fan_speed
                      ELSE s._fan_mode,
        !._swing_mode = state.swing_mode,
        !._air_condition_model =
            IF s._air_condition_model = "None"
            THEN state.air_condition_model
            ELSE s._air_condition_model]

\* MergeStatus without the `is None` test of line 377.
MergeStatus_overwrites_model(s, state) ==
    LET last_on == OperationMode[state.mode] IN
    [s EXCEPT
        !._last_on_operation = last_on,
        !._hvac_mode = IF state.power = "off" THEN "off" ELSE last_on,
        !._state = IF state.power = "off" THEN "False" ELSE "True",
        !._target_temperature = state.target_temperature,
        !._fan_mode = state.fan_speed,
        !._swing_mode = state.swing_mode,
        !._air_condition_model = state.air_condition_model]

\* MergeStatus with the last on operation following the power: off when
\* the snapshot's power is off.
MergeStatus_last_on_follows_power(s, state) ==
    LET mode == IF state.power = "off" THEN "off"
                ELSE OperationMode[state.mode]
    IN
    [s EXCEPT
        !._last_on_operation = mode,
        !._hvac_mode = mode,
        !._state = IF state.power = "off" THEN "False" ELSE "True",
        !._target_temperature = state.target_temperature,
        !._fan_mode = state.fan_speed,
        !._swing_mode = state.swing_mode,
        !._air_condition_model =
            IF s._air_condition_model = "None"
            THEN state.air_condition_model
            ELSE s._air_condition_model]

\* The fields async_update assigns after OperationMode[state.mode.name]
\* was found (lines 367-378).
MergeStatus(s, state) ==
    LET last_on == OperationMode[state.mode] IN
    [s EXCEPT
        !._last_on_operation = last_on,
        !._hvac_mode = IF state.power = "off" THEN "off" ELSE last_on,
        !._state = IF state.power = "off" THEN "False" ELSE "True",
        !._target_temperature = state.target_temperature,
        !._fan_mode = state.fan_speed,
        !._swing_mode = state.swing_mode,
        !._air_condition_model =
            IF s._air_condition_model = "None"
            THEN state.air_condition_model
            ELSE s._air_condition_model]

\* A poll fault that also forgets what the last poll had learned.
PollFault_blanks(s) ==
    [s EXCEPT !._available = FALSE, !._state = "None", !._hvac_mode = "None"]

\* The except branch of async_update (lines 380-382).
PollFault(s) == [s EXCEPT !._available = FALSE]

\* The status carries a mode, fan speed or swing code that the device
\* library has no member for: the property (state.mode, state.fan_speed,
\* state.swing_mode) raises ValueError when it is read.
Unrecognised(state) ==
    "Unrecognised" \in {state.mode, state.fan_speed, state.swing_mode}

\* async_update: one status() call.  `status` is [fault, state].
async_update(s, status) ==
    IF status.fault
    THEN Outcome(PollFault(s),
                 <<DeviceCall("status", NoArgs, "DeviceException")>>, "None")
    ELSE
        LET state == status.state
            shown == [s EXCEPT
                !._available = TRUE,
                !._state_attrs =
                    [ac_model |-> state.air_condition_model,
                     load_power |-> state.load_power,
                     temperature |-> state.target_temperature,
                     swing_mode |-> Lower[state.swing_mode],
                     fan_mode |-> Lower[state.fan_speed],
                     hvac_mode |-> IF s._state = "True"
                                   THEN Lower[state.mode] ELSE "off",
                     led |-> state.led]]
            issued == <<DeviceCall("status", NoArgs, "state")>>
        IN  IF Unrecognised(state)
            THEN Outcome([s EXCEPT !._available = TRUE], issued, "ValueError")
            ELSE IF state.mode \notin DOMAIN OperationMode
            THEN Outcome(shown, issued, "KeyError")
            ELSE Outcome(MergeStatus(shown, state), issued, "None")

\* The exception raised while _send_configuration evaluates the arguments
\* of the call (lines 530-540), or "None".
ComposeError(s) ==
    LET selected == IF s._state = "True" THEN s._hvac_mode
                    ELSE s._last_on_operation
    IN  IF s._state = "None" THEN "TypeError"
        ELSE IF DeviceOf(selected) \notin MiioOperationMode
             THEN DeviceOf(selected)
        ELSE IF s._target_temperature = NoTemp THEN "TypeError"
        ELSE "None"

\* The arguments of send_configuration with the hvac mode translated
\* whether the power is on or off.
ComposeConfiguration_sends_hvac_mode(s) ==
    [model |-> s._air_condition_model,
     power |-> IF s._state = "True" THEN "On" ELSE "Off",
     mode |-> DeviceOf(s._hvac_mode),
     temperature |-> IntTemp(s._target_temperature),
     fan |-> s._fan_mode,
     swing |-> s._swing_mode,
     led |-> "Off",
     code |-> <<>>,
     positions |-> <<"model", "power", "mode", "temperature", "fan",
                     "swing", "led">>]

\* The arguments of send_configuration with the LED as the last poll
\* reported it and the temperature not truncated.
ComposeConfiguration_keeps_led(s) ==
    [model |-> s._air_condition_model,
     power |-> IF s._state = "True" THEN "On" ELSE "Off",
     mode |-> DeviceOf(IF s._state = "True" THEN s._hvac_mode
                       ELSE s._last_on_operation),
     temperature |-> s._target_temperature,
     fan |-> s._fan_mode,
     swing |-> s._swing_mode,
     led |-> IF s._state_attrs.led = "on" THEN "On" ELSE "Off",
     code |-> <<>>,
     positions |-> <<"model", "power", "mode", "temperature", "fan",
                     "swing", "led">>]

\* The arguments of send_configuration, in order (lines 530-540).
ComposeConfiguration(s) ==
    [model |-> s._air_condition_model,
     power |-> IF s._state = "True" THEN "On" ELSE "Off",
     mode |-> DeviceOf(IF s._state = "True" THEN s._hvac_mode
                       ELSE s._last_on_operation),
     temperature |-> IntTemp(s._target_temperature),
     fan |-> s._fan_mode,
     swing |-> s._swing_mode,
     led |-> "Off",
     code |-> <<>>,
     positions |-> <<"model", "power", "mode", "temperature", "fan",
                     "swing", "led">>]

\* _send_configuration without the model test of line 526.
_send_configuration_unguarded(s, response) ==
    IF ComposeError(s) # "None"
    THEN Outcome(s, <<>>, ComposeError(s))
    ELSE Outcome(_try_command(s, response).self,
                 <<DeviceCall("send_configuration",
                              ComposeConfiguration(s), response)>>,
                 "None")

\* _send_configuration
_send_configuration(s, response) ==
    IF s._air_condition_model # "None"
    THEN IF ComposeError(s) # "None"
         THEN Outcome(s, <<>>, ComposeError(s))
         ELSE Outcome(_try_command(s, response).self,
                      <<DeviceCall("send_configuration",
                                   ComposeConfiguration(s), response)>>,
                      "None")
    ELSE Outcome(s, <<>>, "None")

\* async_set_temperature(temperature=..., hvac_mode=...); NoTemp / "None"
\* stand for an absent keyword.
async_set_temperature(s, temperature, hvac_mode, response) ==
    LET s1 == IF temperature # NoTemp
              THEN [s EXCEPT !._target_temperature = temperature] ELSE s
        s2 == IF hvac_mode # "None"
              THEN [s1 EXCEPT !._hvac_mode = hvac_mode] ELSE s1
    IN  _send_configuration(s2, response)

\* async_set_swing_mode: SwingMode[swing_mode.title()]
async_set_swing_mode(s, swing_mode, response) ==
    _send_configuration([s EXCEPT !._swing_mode = swing_mode], response)

\* async_set_fan_mode with the fan speed restored when the command failed.
async_set_fan_mode_rolls_back(s, fan_mode, response) ==
    LET sent == _send_configuration([s EXCEPT !._fan_mode = fan_mode],
                                    response)
    IN  IF response = SUCCESS
        THEN sent
        ELSE Outcome([sent.self EXCEPT !._fan_mode = s._fan_mode],
                     sent.calls, sent.raised)

\* async_set_fan_mode: FanSpeed[fan_mode.title()]
async_set_fan_mode(s, fan_mode, response) ==
    _send_configuration([s EXCEPT !._fan_mode = fan_mode], response)

\* async_set_hvac_mode without the _send_configuration of line 503.
async_set_hvac_mode_off_only(s, hvac_mode, response, response2) ==
    IF hvac_mode = OperationMode["Off"]
    THEN LET r == _try_command(s, response)
             off == DeviceCall("off", NoArgs, response)
         IN  IF r.result
             THEN Outcome([r.self EXCEPT !._state = "False",
                                         !._hvac_mode = "off"],
                          <<off>>, "None")
             ELSE Outcome(r.self, <<off>>, "None")
    ELSE _send_configuration(
             [s EXCEPT !._hvac_mode = OperationMode[OperationModeName(hvac_mode)],
                       !._state = "True"],
             response)

\* async_set_hvac_mode
async_set_hvac_mode(s, hvac_mode, response, response2) ==
    IF hvac_mode = OperationMode["Off"]
    THEN LET r == _try_command(s, response)
             off == DeviceCall("off", NoArgs, response)
         IN  IF r.result
             THEN LET sent == _send_configuration(
                                  [r.self EXCEPT !._state = "False",
                                                 !._hvac_mode = "off"],
                                  response2)
                  IN  Outcome(sent.self, <<off>> \o sent.calls, sent.raised)
             ELSE Outcome(r.self, <<off>>, "None")
    ELSE _send_configuration(
             [s EXCEPT !._hvac_mode = OperationMode[OperationModeName(hvac_mode)],
                       !._state = "True"],
             response)

\* command.startswith(prefix)
startswith(command, prefix) ==
    /\ Len(command) >= Len(prefix)
    /\ SubSeq(command, 1, Len(prefix)) = prefix

\* The loop body of async_send_command with a learned code sent whether or
\* not the model is known.
SendOnce_ir_without_model(s, command, response) ==
    IF startswith(command, <<"0", "1">>)
    THEN Outcome(_try_command(s, response).self,
                 <<DeviceCall("send_command",
                              [NoArgs EXCEPT !.code = command,
                                             !.positions = <<"code">>],
                              response)>>,
                 "None")
    ELSE IF startswith(command, <<"F", "E">>)
    THEN Outcome(_try_command(s, response).self,
                 <<DeviceCall("send_ir_code",
                              [NoArgs EXCEPT
                                  !.model = s._air_condition_model,
                                  !.code = command,
                                  !.positions = <<"model", "code">>],
                              response)>>,
                 "None")
    ELSE Outcome(s, <<>>, "None")

\* One pass of the loop of async_send_command (lines 585-606).
SendOnce(s, command, response) ==
    IF startswith(command, <<"0", "1">>)
    THEN Outcome(_try_command(s, response).self,
                 <<DeviceCall("send_command",
                              [NoArgs EXCEPT !.code = command,
                                             !.positions = <<"code">>],
                              response)>>,
                 "None")
    ELSE IF startswith(command, <<"F", "E">>)
    THEN IF s._air_condition_model # "None"
         THEN Outcome(_try_command(s, response).self,
                      <<DeviceCall("send_ir_code",
                                   [NoArgs EXCEPT
                                       !.model = s._air_condition_model,
                                       !.code = command,
                                       !.positions = <<"model", "code">>],
                                   response)>>,
                      "None")
         ELSE Outcome(s, <<>>, "None")
    ELSE Outcome(s, <<>>, "None")

\* async_send_command leaving its loop at the first pass whose device call
\* did not succeed.
RECURSIVE async_send_command_stops_on_failure(_, _, _)
async_send_command_stops_on_failure(s, command, responses) ==
    IF responses = <<>>
    THEN Outcome(s, <<>>, "None")
    ELSE LET first == SendOnce(s, command, Head(responses))
             rest == async_send_command_stops_on_failure(
                         first.self, command, Tail(responses))
         IN  IF Head(responses) # SUCCESS
             THEN first
             ELSE Outcome(rest.self, first.calls \o rest.calls, "None")

\* async_send_command: `for _ in range(repeat)`, repeat = Len(responses);
\* responses[i] is what the device answers in pass i if that pass calls it.
RECURSIVE async_send_command(_, _, _)
async_send_command(s, command, responses) ==
    IF responses = <<>>
    THEN Outcome(s, <<>>, "None")
    ELSE LET first == SendOnce(s, command, Head(responses))
             rest == async_send_command(first.self, command, Tail(responses))
         IN  Outcome(rest.self, first.calls \o rest.calls, "None")

----------------------------------------------------------------------------
\* Bookkeeping shared by the actions: the outcome of handler `name` becomes
\* the new state.
Apply(name, a, status, out) ==
    /\ op = "None"
    /\ self' = out.self
    /\ op' = name
    /\ args' = a
    /\ calls' = out.calls
    /\ raised' = out.raised
    /\ last_fault' = IF out.calls = <<>> THEN last_fault
                     ELSE out.calls[Len(out.calls)].result = "DeviceException"
    /\ prior_state' = self._state
    /\ polled' = status
    /\ UNCHANGED <<learners, now, flight>>

\* The poll cycle: the device answers with a snapshot or raises.
Update ==
    \E status \in [fault : {FALSE}, state : Snapshots]
                  \cup {[fault |-> TRUE, state |-> NoSnapshot]} :
        Apply("async_update", NoOpArgs, status, async_update(self, status))

TurnOn ==
    \E response \in Responses :
        Apply("async_turn_on", NoOpArgs, NoStatus,
              async_turn_on(self, response))

TurnOff ==
    \E response \in Responses :
        Apply("async_turn_off", NoOpArgs, NoStatus,
              async_turn_off(self, response))

SetTemperature ==
    \E temperature \in SetTemps \cup {NoTemp},
       hvac_mode \in SetModes \cup {"None"},
       response \in Responses :
        Apply("async_set_temperature",
              [NoOpArgs EXCEPT !.temperature = temperature,
                               !.hvac_mode = hvac_mode],
              NoStatus,
              async_set_temperature(self, temperature, hvac_mode, response))

SetSwingMode ==
    \E swing_mode \in SwingModes, response \in Responses :
        Apply("async_set_swing_mode",
              [NoOpArgs EXCEPT !.swing_mode = Lower[swing_mode]],
              NoStatus,
              async_set_swing_mode(self, swing_mode, response))

SetFanMode ==
    \E fan_mode \in FanSpeeds, response \in Responses :
        Apply("async_set_fan_mode",
              [NoOpArgs EXCEPT !.fan_mode = Lower[fan_mode]],
              NoStatus,
              async_set_fan_mode(self, fan_mode, response))

SetHvacMode ==
    \E hvac_mode \in SetModes, response \in Responses :
    \E response2 \in IF hvac_mode = "off" /\ response = SUCCESS
                     THEN Responses ELSE {response} :
        Apply("async_set_hvac_mode",
              [NoOpArgs EXCEPT !.hvac_mode = hvac_mode],
              NoStatus,
              async_set_hvac_mode(self, hvac_mode, response, response2))

SendCommand ==
    \E command \in Commands, repeat \in 0..MaxRepeat :
    \E responses \in [1..repeat -> Responses] :
        Apply("async_send_command",
              [NoOpArgs EXCEPT !.command = command, !.repeat = repeat],
              NoStatus,
              async_send_command(self, command, responses))

\* The handler returns to the event loop.
Return ==
    /\ op # "None"
    /\ op' = "None"
    /\ args' = NoOpArgs
    /\ polled' = NoStatus
    /\ calls' = <<>>
    /\ raised' = "None"
    /\ prior_state' = "None"
    /\ UNCHANGED <<self, last_fault, learners, now, flight>>

Next ==
    \/ Return
    \/ Update
    \/ TurnOn
    \/ TurnOff
    \/ SetTemperature
    \/ SetSwingMode
    \/ SetFanMode
    \/ SetHvacMode
    \/ SendCommand

Spec == Init /\ [][Next]_vars

----------------------------------------------------------------------------
\* The handlers of the state changes of the temperature sensor and of the
\* power sensor (lines 275-312).

\* The states a sensor entity can have: state.state is None, "unknown",
\* "unavailable", a text that is no number, or a number; the unit of
\* measurement is Celsius or Fahrenheit.
SensorStates ==
    [exists : {TRUE},
     state : {"None", "unknown", "unavailable", "abc", "20", "68", "on", "off"},
     unit : {"C", "F"}]

\* float(text): the value in 1/Scale degrees, or the ValueError raised.
Float(text) ==
    CASE text = "20" -> [raised |-> "None", value |-> 20 * Scale]
      [] text = "68" -> [raised |-> "None", value |-> 68 * Scale]
      [] OTHER -> [raised |-> "ValueError", value |-> 0]

\* hass.config.units.temperature(value, unit) of a metric installation,
\* to 1/Scale of a degree.
ToCelsius(value, unit) ==
    IF unit = "F" THEN ((value - 32 * Scale) * 5) \div 9 ELSE value

\* _async_update_temp
_async_update_temp(s, state) ==
    IF state.state \in {"None", "unknown", "unavailable"}
    THEN s
    ELSE IF Float(state.state).raised = "ValueError"
    THEN s
    ELSE [s EXCEPT !._current_temperature =
                        ToCelsius(Float(state.state).value, state.unit)]

\* _async_sensor_changed(event), new_state = event.data["new_state"]
_async_sensor_changed(s, new_state) ==
    IF ~new_state.exists
    THEN Outcome(s, <<>>, "None")
    ELSE Outcome(_async_update_temp(s, new_state), <<>>, "None")

\* _async_update_power_state
_async_update_power_state(s, state, response) ==
    IF state.state = "None"
    THEN Outcome(s, <<>>, "None")
    ELSE IF state.state = "on"
    THEN async_turn_on(s, response)
    ELSE async_turn_off(s, response)

\* _async_power_sensor_changed(entity_id, old_state, new_state)
_async_power_sensor_changed(s, new_state, response) ==
    IF ~new_state.exists
    THEN Outcome(s, <<>>, "None")
    ELSE _async_update_power_state(s, new_state, response)

\* The temperature sensor changed state.
SensorChanged ==
    \E new_state \in SensorStates \cup {NoSensorState} :
        Apply("_async_sensor_changed",
              [NoOpArgs EXCEPT !.new_state = new_state],
              NoStatus, _async_sensor_changed(self, new_state))

\* The power sensor changed state.
PowerSensorChanged ==
    \E new_state \in SensorStates \cup {NoSensorState},
       response \in Responses :
        Apply("_async_power_sensor_changed",
              [NoOpArgs EXCEPT !.new_state = new_state],
              NoStatus, _async_power_sensor_changed(self, new_state, response))

NextSensor ==
    \/ Return
    \/ Update
    \/ SensorChanged
    \/ PowerSensorChanged

SpecSensor == Init /\ [][NextSensor]_vars

----------------------------------------------------------------------------
\* The entity with every operation mode: polls that report any mode of the
\* device, polls that report a code the device library does not know, and
\* async_set_hvac_mode with any hvac mode.

\* The snapshots with each mode of the device.
ModeSnapshots ==
    [air_condition_model : {"m1"}, power : {"on", "off"},
     mode : MiioOperationMode, target_temperature : {MinTemp * Scale},
     fan_speed : {"Low"}, swing_mode : {"On"}, led : {"on"},
     load_power : {0}]

\* The snapshots with one code that is no member of its enumeration.
UnrecognisedSnapshots ==
    LET known == [air_condition_model |-> "m1", power |-> "on",
                  mode |-> "Cool", target_temperature |-> MinTemp * Scale,
                  fan_speed |-> "High", swing_mode |-> "Off", led |-> "on",
                  load_power |-> 0]
    IN  {[known EXCEPT !.mode = "Unrecognised"],
         [known EXCEPT !.fan_speed = "Unrecognised"],
         [known EXCEPT !.swing_mode = "Unrecognised"]}

PollAnyMode ==
    \E status \in [fault : {FALSE}, state : ModeSnapshots] :
        Apply("async_update", NoOpArgs, status, async_update(self, status))

PollUnrecognised ==
    \E status \in [fault : {FALSE}, state : UnrecognisedSnapshots] :
        Apply("async_update", NoOpArgs, status, async_update(self, status))

SetAnyHvacMode ==
    \E hvac_mode \in HvacModes, response \in Responses :
        Apply("async_set_hvac_mode",
              [NoOpArgs EXCEPT !.hvac_mode = hvac_mode],
              NoStatus,
              async_set_hvac_mode(self, hvac_mode, response, response))

NextModes ==
    \/ Return
    \/ PollAnyMode
    \/ PollUnrecognised
    \/ SetAnyHvacMode

SpecModes == Init /\ [][NextModes]_vars

----------------------------------------------------------------------------
\* A poll and a setter in flight together.  async_update is suspended while
\* the executor runs status() and assigns the fields when it returns; a
\* setter assigns its fields, then is suspended while the executor runs
\* send_configuration (lines 471-507, 521-546).  Either call can return
\* first.

\* The setters that write before they send, each with one request.
RaceRequests ==
    {[name |-> "async_set_temperature",
      args |-> [NoOpArgs EXCEPT !.temperature = MaxTemp * Scale]],
     [name |-> "async_set_fan_mode",
      args |-> [NoOpArgs EXCEPT !.fan_mode = "High"]],
     [name |-> "async_set_swing_mode",
      args |-> [NoOpArgs EXCEPT !.swing_mode = "Off"]],
     [name |-> "async_set_hvac_mode",
      args |-> [NoOpArgs EXCEPT !.hvac_mode = "heat"]]}

\* The setter of a request, with the answer of its device call.
RaceSetter(s, request, response) ==
    CASE request.name = "async_set_temperature"
           -> async_set_temperature(s, request.args.temperature, "None",
                                    response)
      [] request.name = "async_set_fan_mode"
           -> async_set_fan_mode(s, request.args.fan_mode, response)
      [] request.name = "async_set_swing_mode"
           -> async_set_swing_mode(s, request.args.swing_mode, response)
      [] request.name = "async_set_hvac_mode"
           -> async_set_hvac_mode(s, request.args.hvac_mode, response,
                                  response)

\* async_update awaits status().
PollStarts ==
    /\ flight.poll = "idle"
    /\ flight' = [flight EXCEPT
                     !.poll = "status",
                     !.overlapped = @ \/ flight.setter = "sent"]
    /\ UNCHANGED <<self, op, args, polled, calls, raised, prior_state,
                   last_fault, learners, now>>

\* status() returns or raises, and async_update runs to its end.
PollCompletes ==
    /\ flight.poll = "status"
    /\ \E status \in [fault : {FALSE}, state : Snapshots]
                      \cup {[fault |-> TRUE, state |-> NoSnapshot]} :
          /\ self' = async_update(self, status).self
          /\ flight' = [flight EXCEPT !.poll = "done", !.status = status,
                                      !.last = "poll"]
    /\ UNCHANGED <<op, args, polled, calls, raised, prior_state,
                   last_fault, learners, now>>

\* The setter assigns its fields and awaits send_configuration; a setter
\* that makes no device call runs to its end.
SetterStarts ==
    /\ flight.setter = "idle"
    /\ \E request \in RaceRequests :
          LET out == RaceSetter(self, request, SUCCESS) IN
          /\ self' = out.self
          /\ flight' = [flight EXCEPT
                           !.setter = IF out.calls = <<>> THEN "done"
                                      ELSE "sent",
                           !.name = request.name,
                           !.args = request.args,
                           !.overlapped = @ \/ (flight.poll = "status"
                                                 /\ out.calls # <<>>)]
    /\ UNCHANGED <<op, args, polled, calls, raised, prior_state,
                   last_fault, learners, now>>

\* send_configuration returns or raises inside _try_command, and the setter
\* runs to its end.
SetterCompletes ==
    /\ flight.setter = "sent"
    /\ \E response \in Responses :
          self' = _try_command(self, response).self
    /\ flight' = [flight EXCEPT !.setter = "done", !.last = "setter"]
    /\ UNCHANGED <<op, args, polled, calls, raised, prior_state,
                   last_fault, learners, now>>

\* The entity after a first poll that got a snapshot.
InitRace ==
    /\ learners = [i \in Learners |-> NotCalled]
    /\ now = 0
    /\ flight = NoFlight
    /\ self \in {async_update(Constructed, status).self :
                    status \in [fault : {FALSE}, state : Snapshots]}
    /\ op = "None"
    /\ args = NoOpArgs
    /\ polled = NoStatus
    /\ calls = <<>>
    /\ raised = "None"
    /\ last_fault = FALSE
    /\ prior_state = "None"

NextRace ==
    \/ PollStarts
    \/ PollCompletes
    \/ SetterStarts
    \/ SetterCompletes

SpecRace == InitRace /\ [][NextRace]_vars

----------------------------------------------------------------------------
\* async_learn_command (lines 548-574).  The coroutine is suspended at each
\* await: in the learn, learn_result and learn_stop calls, which the
\* executor runs and which return after any time, and in asyncio.sleep(1).
\* Other coroutines, other learn commands among them, run meanwhile.

\* What learn_result()[0] can be: a learned code, and two other strings.
Messages == {<<"F", "E", "1">>, <<"F">>, <<"0", "0">>}

\* The texts of the two persistent notifications.
ReceivedNotice(message) ==
    [text |-> "Received command is", code |-> message]
TimeoutNotice ==
    [text |-> "Timeout. No infrared command captured", code |-> <<>>]

\* The coroutine issues the device call `name`.
Issue(l, name) == [l EXCEPT !.pc = name, !.log = Append(@, name)]

\* The test of the while loop at time t (line 553) and the call that
\* follows it: learn_result in the loop, learn_stop after it (line 570).
WhileTest(l, t) ==
    IF t - l.start_time < l.timeout
    THEN Issue(l, "learn_result")
    ELSE Issue(l, "learn_stop")

\* Lines 557-568 with a learned code notified and polling carried on.
OnMessage_keeps_polling(l, message, t) ==
    IF startswith(message, <<"F", "E">>)
    THEN [l EXCEPT !.message = message, !.result_time = t,
                   !.notice = ReceivedNotice(message),
                   !.pc = "sleep", !.wake = t + 1]
    ELSE [l EXCEPT !.message = message, !.result_time = t,
                   !.pc = "sleep", !.wake = t + 1]

\* Lines 557-568: learn_result returned [message] at time t.
OnMessage(l, message, t) ==
    IF startswith(message, <<"F", "E">>)
    THEN Issue([l EXCEPT !.message = message, !.result_time = t,
                         !.notice = ReceivedNotice(message)],
               "learn_stop")
    ELSE [l EXCEPT !.message = message, !.result_time = t,
                   !.pc = "sleep", !.wake = t + 1]

\* A DeviceException raised by the awaited call leaves the coroutine.
Raise(l) == [l EXCEPT !.pc = "raised", !.fault = TRUE]

\* learn_stop returned: after the `return` of line 567 nothing follows, after
\* the loop the timeout is notified (lines 571-574).
OnStopped(l) ==
    IF l.notice = NoNotice
    THEN [l EXCEPT !.pc = "done", !.notice = TimeoutNotice]
    ELSE [l EXCEPT !.pc = "done"]

\* The service call: async_learn_command(slot, timeout) starts and awaits
\* learn(slot).
LearnCommand(i) ==
    /\ learners[i].pc = "idle"
    /\ \E timeout \in 0..MaxTimeout :
           learners' = [learners EXCEPT
                           ![i] = Issue([@ EXCEPT !.timeout = timeout],
                                        "learn")]
    /\ UNCHANGED <<self, op, args, polled, calls, raised, prior_state,
                   last_fault, now, flight>>

\* learn(slot) returns or raises; start_time is read and the loop entered.
LearnReturns(i) ==
    /\ learners[i].pc = "learn"
    /\ \E fault \in BOOLEAN :
           learners' = [learners EXCEPT
                           ![i] = IF fault THEN Raise(@)
                                  ELSE WhileTest([@ EXCEPT !.start_time = now],
                                                 now)]
    /\ UNCHANGED <<self, op, args, polled, calls, raised, prior_state,
                   last_fault, now, flight>>

\* learn_result() returns a message or raises.
LearnResultReturns(i) ==
    /\ learners[i].pc = "learn_result"
    /\ \/ learners' = [learners EXCEPT ![i] = Raise(@)]
       \/ \E message \in Messages :
              learners' = [learners EXCEPT ![i] = OnMessage(@, message, now)]
    /\ UNCHANGED <<self, op, args, polled, calls, raised, prior_state,
                   last_fault, now, flight>>

\* asyncio.sleep(1) is over; the loop test is made again.
SleepReturns(i) ==
    /\ learners[i].pc = "sleep"
    /\ now >= learners[i].wake
    /\ learners' = [learners EXCEPT ![i] = WhileTest(@, now)]
    /\ UNCHANGED <<self, op, args, polled, calls, raised, prior_state,
                   last_fault, now, flight>>

\* learn_stop(slot) returns or raises; the coroutine ends (lines 566, 570-574).
LearnStopReturns(i) ==
    /\ learners[i].pc = "learn_stop"
    /\ \E fault \in BOOLEAN :
           learners' = [learners EXCEPT
                           ![i] = IF fault THEN Raise(@)
                                  ELSE OnStopped(@)]
    /\ UNCHANGED <<self, op, args, polled, calls, raised, prior_state,
                   last_fault, now, flight>>

\* A second passes.
Tick ==
    /\ now < MaxClock
    /\ now' = now + 1
    /\ UNCHANGED <<self, op, args, polled, calls, raised, prior_state,
                   last_fault, learners, flight>>

\* The entity is added after its first poll (update_before_add, line 172):
\* the poll got a snapshot, or it raised.
FirstPolls ==
    {[fault |-> FALSE,
      state |-> [air_condition_model |-> "m1", power |-> "on",
                 mode |-> "Cool", target_temperature |-> MinTemp * Scale,
                 fan_speed |-> "Low", swing_mode |-> "On", led |-> "on",
                 load_power |-> 0]],
     [fault |-> TRUE, state |-> NoSnapshot]}

InitLearn ==
    /\ learners = [i \in Learners |-> NotCalled]
    /\ now = 0
    /\ flight = NoFlight
    /\ self \in {async_update(Constructed, status).self : status \in FirstPolls}
    /\ op = "None"
    /\ args = NoOpArgs
    /\ polled = NoStatus
    /\ calls = <<>>
    /\ raised = "None"
    /\ last_fault = ~self._available
    /\ prior_state = "None"

NextLearn ==
    \/ Tick
    \/ \E i \in Learners : LearnCommand(i)
    \/ \E i \in Learners : LearnReturns(i)
    \/ \E i \in Learners : LearnResultReturns(i)
    \/ \E i \in Learners : SleepReturns(i)
    \/ \E i \in Learners : LearnStopReturns(i)

SpecLearn == InitLearn /\ [][NextLearn]_vars

----------------------------------------------------------------------------
\* The claims.

\* The poll that has just run got a snapshot.
PollSucceeded == op = "async_update" /\ ~polled.fault

\* C1: whenever the most recent device call (on, off, send_configuration,
\* send_command, send_ir_code, status) raised DeviceException the entity is
\* unavailable, and _available turns from false to true only in a step of
\* async_update whose status() call returned a snapshot.
C1_AvailableOnlyByPoll ==
    /\ [](last_fault => ~self._available)
    /\ [][(~self._available /\ self'._available)
            => (op' = "async_update" /\ ~polled'.fault)]_vars

\* A setter ran on an available entity's state and its send_configuration
\* raised.
C1_Witness ==
    /\ op = "async_set_fan_mode"
    /\ Len(calls) = 1
    /\ calls[1].name = "send_configuration"
    /\ calls[1].result = "DeviceException"
    /\ last_fault
    /\ ~self._available

\* What the setters that take no mode would do next in state s.
NextCompositions(s) ==
    {async_set_fan_mode(s, f, r) : f \in FanSpeeds, r \in Responses}
    \cup {async_set_swing_mode(s, w, r) : w \in SwingModes, r \in Responses}
    \cup {async_set_temperature(s, t, "None", r) :
            t \in SetTemps, r \in Responses}

\* C2: after a successful turn-on with no mode, from a state with the model
\* known, the power off, the hvac mode off (as a poll that saw power off
\* leaves them) and last_on_operation cool, the next setter sends a
\* configuration whose operation mode is Cool.
C2_ResumeOnTurnOn ==
    ( /\ op = "async_turn_on"
      /\ calls[1].result = SUCCESS
      /\ prior_state = "False"
      /\ self._hvac_mode = "off"
      /\ self._last_on_operation = "cool"
      /\ self._air_condition_model # "None" )
    => \A out \in NextCompositions(self) :
          /\ Len(out.calls) = 1
          /\ out.calls[1].name = "send_configuration"
          /\ out.calls[1].args.mode = "Cool"

\* C3: after a successful poll the entity is available and the cached power,
\* operation mode, fan mode, swing mode and target temperature are the
\* snapshot's.
C3_PollWins ==
    PollSucceeded =>
        /\ self._available
        /\ self._state = (IF polled.state.power = "off" THEN "False"
                          ELSE "True")
        /\ self._last_on_operation = OperationMode[polled.state.mode]
        /\ self._hvac_mode = (IF polled.state.power = "off" THEN "off"
                              ELSE OperationMode[polled.state.mode])
        /\ self._fan_mode = polled.state.fan_speed
        /\ self._swing_mode = polled.state.swing_mode
        /\ self._target_temperature = polled.state.target_temperature

\* A poll found the power off while the cached power was on.
C3_Witness ==
    /\ PollSucceeded
    /\ prior_state = "True"
    /\ polled.state.power = "off"
    /\ self._state = "False"
    /\ self._hvac_mode = "off"

\* C4: a poll whose status() raises sets _available to false and changes no
\* other field; a poll that gets a snapshot sets _available to true.
C4_PollFaultKeepsState ==
    [][op' = "async_update"
         => IF polled'.fault
            THEN self' = [self EXCEPT !._available = FALSE]
            ELSE self'._available]_vars

\* A poll faulted after an earlier one had filled the state.
C4_Witness ==
    /\ op = "async_update"
    /\ polled.fault
    /\ ~self._available
    /\ self._air_condition_model # "None"
    /\ self._state = "True"
    /\ self._state_attrs.ac_model # "None"

\* C5: every send_configuration call is issued with the model known and
\* carries it, and with the model unknown async_set_temperature,
\* async_set_fan_mode, async_set_swing_mode and async_set_hvac_mode with a
\* mode other than off issue no device call.
C5_ModelUnknownGuard ==
    /\ \A i \in 1..Len(calls) :
          calls[i].name = "send_configuration"
          => /\ self._air_condition_model # "None"
             /\ calls[i].args.model = self._air_condition_model
    /\ ( /\ self._air_condition_model = "None"
         /\ \/ op \in {"async_set_temperature", "async_set_fan_mode",
                       "async_set_swing_mode"}
            \/ op = "async_set_hvac_mode" /\ args.hvac_mode # "off" )
       => calls = <<>>

\* A setter ran before any poll: the field is written, nothing is sent.
C5_Witness ==
    /\ op = "async_set_hvac_mode"
    /\ args.hvac_mode = "heat"
    /\ self._hvac_mode = "heat"
    /\ self._target_temperature # NoTemp
    /\ self._air_condition_model = "None"
    /\ calls = <<>>

\* C6: the model is set by the first poll that gets a snapshot, by nothing
\* else, and once set it never changes.
C6_ModelTokenPermanent ==
    [][IF self._air_condition_model # "None"
       THEN self'._air_condition_model = self._air_condition_model
       ELSE self'._air_condition_model =
                IF op' = "async_update" /\ ~polled'.fault
                THEN polled'.state.air_condition_model
                ELSE "None"]_vars

\* A later poll reported another model and the first one was kept.
C6_Witness ==
    /\ PollSucceeded
    /\ self._air_condition_model # "None"
    /\ polled.state.air_condition_model # self._air_condition_model
    /\ self._state_attrs.ac_model = polled.state.air_condition_model

\* C7: async_set_temperature with a temperature below min_temp or above
\* max_temp changes no field and calls nothing; with min_temp or max_temp
\* it caches the temperature.
C7_TemperatureRange ==
    [][(op' = "async_set_temperature" /\ args'.temperature # NoTemp)
         => IF \/ args'.temperature < self._min_temp
               \/ args'.temperature > self._max_temp
            THEN self' = self /\ calls' = <<>>
            ELSE self'._target_temperature = args'.temperature]_vars

\* C8: async_turn_off issues one off() call and nothing else; when it
\* returns the success token the power is off, the hvac mode is off and
\* nothing else changes; otherwise the power and the hvac mode are kept.
C8_TurnOff ==
    [][op' = "async_turn_off"
         => /\ Len(calls') = 1
            /\ calls'[1].name = "off"
            /\ IF calls'[1].result = SUCCESS
               THEN self' = [self EXCEPT !._state = "False",
                                         !._hvac_mode = "off"]
               ELSE /\ self'._state = self._state
                    /\ self'._hvac_mode = self._hvac_mode]_vars

\* C9: async_set_hvac_mode with a mode m other than off sets the power on,
\* the hvac mode to m and last_on_operation to m, and with the model known
\* sends one configuration with power On and the device's mode for m.
C9_SetHvacMode ==
    [][(op' = "async_set_hvac_mode" /\ args'.hvac_mode # "off")
         => /\ self'._state = "True"
            /\ self'._hvac_mode = args'.hvac_mode
            /\ self'._last_on_operation = args'.hvac_mode
            /\ self._air_condition_model # "None"
               => /\ Len(calls') = 1
                  /\ calls'[1].name = "send_configuration"
                  /\ calls'[1].args.power = "On"
                  /\ calls'[1].args.mode
                       = OperationModeName(args'.hvac_mode)]_vars

\* C10 as stated: async_set_hvac_mode(off) issues the calls async_turn_off
\* would issue (one off()) and ends in the state async_turn_off would end
\* in, where a successful turn-off is granted the hvac mode off that C8
\* expects of it.
C10_SetHvacOffIsTurnOff ==
    [][(op' = "async_set_hvac_mode" /\ args'.hvac_mode = "off")
         => LET turned == async_turn_off(self, calls'[1].result)
            IN  /\ calls' = turned.calls
                /\ self' = [turned.self EXCEPT !._hvac_mode =
                              IF calls'[1].result = SUCCESS
                              THEN "off" ELSE @]]_vars

\* C10 as amended: async_set_hvac_mode(off) starts with the off() call of
\* async_turn_off.  When off() does not return the success token it ends as
\* async_turn_off does.  When it does, the power is off as after
\* async_turn_off, the hvac mode is off, and with the model known one
\* configuration with power Off and the device's mode for
\* last_on_operation is sent after the off().
C10_SetHvacOffAmended ==
    [][(op' = "async_set_hvac_mode" /\ args'.hvac_mode = "off")
         => LET turned == async_turn_off(self, calls'[1].result)
                after == [turned.self EXCEPT !._hvac_mode = "off"]
            IN  /\ calls'[1] = turned.calls[1]
                /\ IF calls'[1].result # SUCCESS
                   THEN self' = turned.self /\ calls' = turned.calls
                   ELSE IF self._air_condition_model = "None"
                   THEN self' = after /\ calls' = turned.calls
                   ELSE /\ Len(calls') = 2
                        /\ calls'[2].name = "send_configuration"
                        /\ calls'[2].args.power = "Off"
                        /\ calls'[2].args.mode
                             = OperationModeName(self._last_on_operation)
                        /\ self' = [after EXCEPT !._available =
                                      IF calls'[2].result = "DeviceException"
                                      THEN FALSE ELSE @]]_vars

\* async_set_hvac_mode(off) switched the device off and sent a configuration.
C10_Witness ==
    /\ op = "async_set_hvac_mode"
    /\ args.hvac_mode = "off"
    /\ prior_state = "True"
    /\ Len(calls) = 2
    /\ calls[1].result = SUCCESS
    /\ calls[2].name = "send_configuration"
    /\ self._state = "False"
    /\ self._hvac_mode = "off"

----------------------------------------------------------------------------
\* The dispatch wrapper and the handlers that go through it.

\* The handlers whose device calls all go through _try_command.
Dispatching ==
    {"async_turn_on", "async_turn_off", "async_set_temperature",
     "async_set_swing_mode", "async_set_fan_mode", "async_set_hvac_mode",
     "async_send_command"}

\* The results of the device calls of the handler that has just run.
Results(cs) == {cs[i].result : i \in 1..Len(cs)}

Setters ==
    {"async_turn_on", "async_turn_off", "async_set_temperature",
     "async_set_swing_mode", "async_set_fan_mode", "async_set_hvac_mode"}

\* The last device call of the setter that has just run raised
\* DeviceException or answered with another response than the success token.
SetterFailed ==
    /\ op \in Setters
    /\ calls # <<>>
    /\ calls[Len(calls)].result # SUCCESS

\* C12: when the device call of a setter raises DeviceException or answers
\* with a non-success response, no exception escapes the setter and every
\* field the setter wrote before the call holds the value asked for:
\* the target temperature and hvac mode of async_set_temperature, the swing
\* mode, the fan speed, the hvac mode and power of async_set_hvac_mode (for
\* off: once off() has succeeded).  async_turn_on and async_turn_off write
\* no field before their call, and the power stays as it was.
C12_FailedSetterKeepsFields ==
    SetterFailed
      => /\ raised = "None"
         /\ op = "async_set_temperature"
              => /\ args.temperature # NoTemp
                      => self._target_temperature = args.temperature
                 /\ args.hvac_mode # "None"
                      => self._hvac_mode = args.hvac_mode
         /\ op = "async_set_swing_mode"
              => Lower[self._swing_mode] = args.swing_mode
         /\ op = "async_set_fan_mode"
              => Lower[self._fan_mode] = args.fan_mode
         /\ (op = "async_set_hvac_mode" /\ args.hvac_mode # "off")
              => self._hvac_mode = args.hvac_mode /\ self._state = "True"
         /\ (op = "async_set_hvac_mode" /\ args.hvac_mode = "off"
                 /\ Len(calls) = 2)
              => self._hvac_mode = "off" /\ self._state = "False"
         /\ op \in {"async_turn_on", "async_turn_off"}
              => self._state = prior_state

\* async_set_fan_mode("high") whose send_configuration raised
\* DeviceException: the fan speed is High and the entity is unavailable.
C12_Witness ==
    /\ op = "async_set_fan_mode"
    /\ args.fan_mode = "high"
    /\ calls # <<>>
    /\ calls[1].name = "send_configuration"
    /\ calls[1].result = "DeviceException"
    /\ raised = "None"
    /\ self._fan_mode = "High"
    /\ ~self._available

----------------------------------------------------------------------------
\* async_send_command.

\* The code starts with the two characters a, b.
HasPrefix(code, a, b) == Len(code) >= 2 /\ code[1] = a /\ code[2] = b

\* C13: async_send_command sends a code starting with "01" by send_command
\* with that code, and a code starting with "FE" by send_ir_code with the
\* entity's model and that code when the model is known; a code starting
\* with "FE" while the model is unknown and a code with any other prefix
\* cause no device call.
C13_SendCommandRouting ==
    op = "async_send_command"
      => LET code == args.command
             model == self._air_condition_model
         IN  /\ HasPrefix(code, "0", "1")
                  => /\ args.repeat > 0 => calls # <<>>
                     /\ \A i \in 1..Len(calls) :
                            /\ calls[i].name = "send_command"
                            /\ calls[i].args.code = code
             /\ (HasPrefix(code, "F", "E") /\ model # "None")
                  => /\ args.repeat > 0 => calls # <<>>
                     /\ \A i \in 1..Len(calls) :
                            /\ calls[i].name = "send_ir_code"
                            /\ calls[i].args.model = model
                            /\ calls[i].args.code = code
             /\ (HasPrefix(code, "F", "E") /\ model = "None")
                  => calls = <<>>
             /\ (~HasPrefix(code, "0", "1") /\ ~HasPrefix(code, "F", "E"))
                  => calls = <<>>

\* A learned code was sent by send_ir_code with the model m1.
C13_Witness ==
    /\ op = "async_send_command"
    /\ args.command = <<"F", "E", "A">>
    /\ calls # <<>>
    /\ calls[1].name = "send_ir_code"
    /\ calls[1].args.model = "m1"
    /\ calls[1].args.code = <<"F", "E", "A">>

\* C14: async_send_command with a code it can send ("01", or "FE" with the
\* model known) and repeat count n issues exactly n device calls, one after
\* the other, whatever the earlier ones answered or raised.
C14_SendCommandRepeats ==
    (/\ op = "async_send_command"
     /\ \/ HasPrefix(args.command, "0", "1")
        \/ /\ HasPrefix(args.command, "F", "E")
           /\ self._air_condition_model # "None")
      => Len(calls) = args.repeat

\* Two passes were asked for; the first raised DeviceException and the
\* second was made all the same.
C14_Witness ==
    /\ op = "async_send_command"
    /\ args.repeat = 2
    /\ Len(calls) = 2
    /\ calls[1].result = "DeviceException"
    /\ calls[2].result = SUCCESS

----------------------------------------------------------------------------
\* async_learn_command.

\* How many times the coroutine has issued the call `name`.
Issued(l, name) == Cardinality({k \in 1..Len(l.log) : l.log[k] = name})

\* The coroutine has notified a learned code.
Captured(l) == l.notice.text = "Received command is"

\* The coroutine has run to its end or was left by an exception.
Ended(l) == l.pc \in {"done", "raised"}

\* C15: a learn command that has started polling and whose learn_result
\* never returns a code starting with "FE" ends timed out: its timeout has
\* elapsed, it has called learn_stop exactly once and no learn_result after
\* it, and it has notified the timeout.
C15_LearnTimesOut ==
    \A i \in Learners :
        LET l == learners[i] IN
        (Ended(l) /\ l.start_time # NoTime /\ ~HasPrefix(l.message, "F", "E"))
          => /\ l.pc = "done"
             /\ now - l.start_time >= l.timeout
             /\ Issued(l, "learn_stop") = 1
             /\ l.log[Len(l.log)] = "learn_stop"
             /\ l.notice = TimeoutNotice

\* C15 for the learn commands none of whose device calls raised.
LearnTimesOutUnlessFault ==
    \A i \in Learners :
        LET l == learners[i] IN
        (Ended(l) /\ l.start_time # NoTime /\ ~HasPrefix(l.message, "F", "E")
            /\ ~l.fault)
          => /\ l.pc = "done"
             /\ now - l.start_time >= l.timeout
             /\ Issued(l, "learn_stop") = 1
             /\ l.log[Len(l.log)] = "learn_stop"
             /\ l.notice = TimeoutNotice

\* C16: a learn command calls learn exactly once, before any learn_result.
\* The first learn_result message starting with "FE" ends it as captured:
\* that code is notified, learn_stop is called exactly once, right after that
\* learn_result, and no learn_result follows.  After a message without the
\* prefix nothing is notified, learn_stop is not called, and the command
\* sleeps to go round the loop again.
C16_LearnCaptures ==
    \A i \in Learners :
        LET l == learners[i]
            n == Len(l.log)
        IN  /\ l.log # <<>>
                 => l.log[1] = "learn" /\ Issued(l, "learn") = 1
            /\ HasPrefix(l.message, "F", "E")
                 => /\ l.notice = ReceivedNotice(l.message)
                    /\ l.pc \in {"learn_stop", "done", "raised"}
                    /\ Issued(l, "learn_stop") = 1
                    /\ l.log[n] = "learn_stop"
                    /\ l.log[n - 1] = "learn_result"
            /\ Captured(l) => HasPrefix(l.message, "F", "E")
            /\ l.pc = "sleep"
                 => /\ l.notice = NoNotice
                    /\ Issued(l, "learn_stop") = 0
                    /\ l.log[n] = "learn_result"
                    /\ l.wake = l.result_time + 1

\* A learn command got a message without the prefix, polled again, got a
\* learned code, stopped learning and ended.
C16_Witness ==
    \E i \in Learners :
        /\ learners[i].pc = "done"
        /\ learners[i].log
             = <<"learn", "learn_result", "learn_result", "learn_stop">>
        /\ learners[i].notice = ReceivedNotice(<<"F", "E", "1">>)

\* The learn command is between the issue of its learn call and the return
\* of its learn_stop call.
Active(l) == l.pc \in {"learn", "learn_result", "sleep", "learn_stop"}

\* C17: at most one learn command is active on the device at any time: a
\* learn command arriving while another is between its learn and its
\* learn_stop is turned down and issues no learn call.
C17_OneLearnSession ==
    \A i, j \in Learners :
        (Active(learners[i]) /\ Active(learners[j])) => i = j

\* C18: the timeout is a hard cancellation: a learn_result message that
\* arrives once the timeout has elapsed is not applied, so whatever a learn
\* command has notified as learned arrived before its timeout had elapsed.
C18_TimeoutCancels ==
    \A i \in Learners :
        LET l == learners[i] IN
        Captured(l) => l.result_time - l.start_time < l.timeout

\* C19: the learning calls go through the dispatch wrapper: a
\* DeviceException raised by learn, learn_result or learn_stop does not
\* leave the learn command, and the entity is unavailable after it.
C19_LearnFaultsCaught ==
    \A i \in Learners :
        learners[i].fault
          => learners[i].pc # "raised" /\ ~self._available

----------------------------------------------------------------------------
\* The sensor handlers.

\* The sensor state carries no temperature: it is missing, None, "unknown",
\* "unavailable" or no number.
NoReading(new_state) ==
    \/ ~new_state.exists
    \/ new_state.state \in {"None", "unknown", "unavailable"}
    \/ Float(new_state.state).raised = "ValueError"

\* C20: a state change of the temperature sensor or of the power sensor
\* changes no field but the current temperature and causes no device call;
\* a sensor state that is unknown, unavailable or no number leaves every
\* field as it was.
C20_SensorsOnlyCurrentTemperature ==
    [][op' \in {"_async_sensor_changed", "_async_power_sensor_changed"}
         => /\ calls' = <<>>
            /\ self' = [self EXCEPT !._current_temperature =
                                        self'._current_temperature]
            /\ NoReading(args'.new_state) => self' = self]_vars

\* C20 for the temperature sensor alone.
TemperatureSensorOnlyCurrentTemperature ==
    [][op' = "_async_sensor_changed"
         => /\ calls' = <<>>
            /\ self' = [self EXCEPT !._current_temperature =
                                        self'._current_temperature]
            /\ NoReading(args'.new_state) => self' = self]_vars

----------------------------------------------------------------------------
\* The last on operation.

\* C21: _last_on_operation is never off, and it changes only in a poll
\* that got a snapshot, to the snapshot's operation mode (which is not off),
\* or in async_set_hvac_mode with a mode other than off; async_turn_on,
\* async_turn_off, async_set_temperature, async_set_fan_mode,
\* async_set_swing_mode and async_send_command leave it as it was.
C21_LastOnOperation ==
    /\ self._last_on_operation # "off"
    /\ [][/\ self'._last_on_operation # "off"
          /\ self'._last_on_operation # self._last_on_operation
               => \/ /\ op' = "async_update"
                     /\ ~polled'.fault
                     /\ self'._last_on_operation
                          = OperationMode[polled'.state.mode]
                  \/ /\ op' = "async_set_hvac_mode"
                     /\ args'.hvac_mode # "off"]_vars

\* A poll reported power off and mode Cool, and async_set_hvac_mode("heat")
\* has run since: the hvac mode is heat, the last on operation still cool.
C21_Witness ==
    /\ op = "async_set_hvac_mode"
    /\ args.hvac_mode = "heat"
    /\ prior_state = "False"
    /\ self._hvac_mode = "heat"
    /\ self._last_on_operation = "cool"

----------------------------------------------------------------------------
\* The translation of operation modes.

\* The mode _send_configuration translates: the hvac mode when the power
\* is on, the last on operation when it is off.
Selected(s) ==
    IF s._state = "True" THEN s._hvac_mode ELSE s._last_on_operation

\* C22 as stated: every hvac mode, off included, and so the hvac mode the
\* entity holds, has a device mode that translates back to it; every device
\* mode has an hvac mode that translates back to it; both translations are
\* injective.
C22_RoundTripWithOff ==
    /\ \A x \in HvacModes \cup ({self._hvac_mode} \ {"None"}) :
           DeviceOf(x) \in MiioOperationMode /\ AbstractOf(DeviceOf(x)) = x
    /\ \A y \in MiioOperationMode : DeviceOf(AbstractOf(y)) = y
    /\ \A x1, x2 \in HvacModes : DeviceOf(x1) = DeviceOf(x2) => x1 = x2
    /\ \A y1, y2 \in MiioOperationMode :
           AbstractOf(y1) = AbstractOf(y2) => y1 = y2

\* C22 as amended: the hvac modes other than off and the device modes
\* translate to each other and back, one to one; off has no device mode
\* (translating it raises KeyError).  In the entity: the last on operation a
\* poll stores translates back to the mode the snapshot reported, and the
\* mode of every configuration sent translates back to the mode selected.
C22_RoundTrip ==
    /\ \A x \in HvacModes \ {"off"} :
           DeviceOf(x) \in MiioOperationMode /\ AbstractOf(DeviceOf(x)) = x
    /\ DeviceOf("off") = "KeyError"
    /\ \A y \in MiioOperationMode :
           AbstractOf(y) \in HvacModes \ {"off"} /\ DeviceOf(AbstractOf(y)) = y
    /\ \A x1, x2 \in HvacModes \ {"off"} :
           DeviceOf(x1) = DeviceOf(x2) => x1 = x2
    /\ \A y1, y2 \in MiioOperationMode :
           AbstractOf(y1) = AbstractOf(y2) => y1 = y2
    /\ (op = "async_update" /\ ~polled.fault /\ raised = "None")
         => DeviceOf(self._last_on_operation) = polled.state.mode
    /\ \A i \in 1..Len(calls) :
           calls[i].name = "send_configuration"
             => /\ calls[i].args.mode \in MiioOperationMode
                /\ AbstractOf(calls[i].args.mode) = Selected(self)

\* async_set_hvac_mode("dry") sent a configuration with the device mode
\* Dehumidify after a poll had reported the mode Ventilate.
C22_Witness ==
    /\ op = "async_set_hvac_mode"
    /\ args.hvac_mode = "dry"
    /\ calls # <<>>
    /\ calls[1].name = "send_configuration"
    /\ calls[1].args.mode = "Dehumidify"
    /\ self._last_on_operation = "fan_only"

----------------------------------------------------------------------------
\* The configuration sent.

\* C23: in every configuration sent the operation mode is the device mode
\* of the hvac mode when the cached power is on, and the device mode of the
\* last on operation when the cached power is off.
C23_ModeOfConfiguration ==
    \A i \in 1..Len(calls) :
        calls[i].name = "send_configuration"
          => /\ self._state \in {"True", "False"}
             /\ self._state = "True"
                  => /\ DeviceOf(self._hvac_mode) \in MiioOperationMode
                     /\ calls[i].args.mode = DeviceOf(self._hvac_mode)
             /\ self._state = "False"
                  => /\ DeviceOf(self._last_on_operation) \in MiioOperationMode
                     /\ calls[i].args.mode
                          = DeviceOf(self._last_on_operation)

\* A configuration was sent with the power off and the hvac mode off: its
\* mode is the device mode of the last on operation, cool.
C23_Witness ==
    /\ calls # <<>>
    /\ calls[Len(calls)].name = "send_configuration"
    /\ self._state = "False"
    /\ self._hvac_mode = "off"
    /\ self._last_on_operation = "cool"
    /\ calls[Len(calls)].args.mode = "Cool"

\* C24: every send_configuration call passes, in this order, the model,
\* the power of the cached state, the mode selected, the cached target
\* temperature truncated to whole degrees, the cached fan speed, the cached
\* swing mode and the LED; the LED passed is Off whatever the last poll
\* reported.
C24_ConfigurationArguments ==
    \A i \in 1..Len(calls) :
        calls[i].name = "send_configuration"
          => LET a == calls[i].args IN
             /\ a.positions = <<"model", "power", "mode", "temperature",
                                "fan", "swing", "led">>
             /\ a.model = self._air_condition_model
             /\ a.model # "None"
             /\ a.power = (IF self._state = "True" THEN "On" ELSE "Off")
             /\ a.mode = DeviceOf(Selected(self))
             /\ a.temperature = (self._target_temperature \div Scale) * Scale
             /\ a.temperature <= self._target_temperature
             /\ self._target_temperature - a.temperature < Scale
             /\ a.fan = self._fan_mode
             /\ a.swing = self._swing_mode
             /\ a.led = "Off"

\* A configuration was sent while the target temperature was a fraction
\* above the maximum and the last poll had reported the LED on: it carries
\* the maximum and the LED Off.
C24_Witness ==
    /\ calls # <<>>
    /\ calls[Len(calls)].name = "send_configuration"
    /\ self._target_temperature = MaxTemp * Scale + 1
    /\ calls[Len(calls)].args.temperature = MaxTemp * Scale
    /\ self._state_attrs.led = "on"
    /\ calls[Len(calls)].args.led = "Off"

----------------------------------------------------------------------------
\* The poll.

\* C25: a poll whose snapshot carries an operation mode, fan speed or swing
\* code without a counterpart leaves the entity unavailable and keeps the
\* hvac mode, last on operation, fan speed and swing mode it had.
C25_UnrecognisedValue ==
    [][(op' = "async_update" /\ ~polled'.fault
           /\ Unrecognised(polled'.state))
         => /\ ~self'._available
            /\ self'._hvac_mode = self._hvac_mode
            /\ self'._last_on_operation = self._last_on_operation
            /\ self'._fan_mode = self._fan_mode
            /\ self'._swing_mode = self._swing_mode]_vars

\* C25 without the availability: the poll keeps every field but _available,
\* which it sets, and ValueError leaves async_update.
UnrecognisedValueKeepsFields ==
    [][(op' = "async_update" /\ ~polled'.fault
           /\ Unrecognised(polled'.state))
         => /\ self' = [self EXCEPT !._available = TRUE]
            /\ raised' = "ValueError"]_vars

----------------------------------------------------------------------------
\* The poll and a setter in flight together.

\* C26: when a poll that got a snapshot and a setter were in flight at one
\* time and both have ended, the fields both write hold what the one whose
\* device call returned last wrote: the snapshot's power, hvac mode, target
\* temperature, fan speed and swing mode when status() returned last, the
\* setter's value when send_configuration returned last.
C26_LastCompletedWins ==
    (/\ flight.overlapped
     /\ flight.poll = "done"
     /\ flight.setter = "done"
     /\ ~flight.status.fault)
      => LET state == flight.status.state IN
         IF flight.last = "poll"
         THEN /\ self._state = (IF state.power = "off" THEN "False"
                                ELSE "True")
              /\ self._hvac_mode = (IF state.power = "off" THEN "off"
                                    ELSE AbstractOf(state.mode))
              /\ self._target_temperature = state.target_temperature
              /\ self._fan_mode = state.fan_speed
              /\ self._swing_mode = state.swing_mode
         ELSE /\ flight.name = "async_set_temperature"
                   => self._target_temperature = flight.args.temperature
              /\ flight.name = "async_set_fan_mode"
                   => self._fan_mode = flight.args.fan_mode
              /\ flight.name = "async_set_swing_mode"
                   => self._swing_mode = flight.args.swing_mode
              /\ flight.name = "async_set_hvac_mode"
                   => /\ self._hvac_mode = flight.args.hvac_mode
                      /\ self._state = "True"

\* The half of C26 that holds: when status() returned last, the fields
\* hold the snapshot's values.
PollCompletedLastWins ==
    (/\ flight.poll = "done"
     /\ flight.setter = "done"
     /\ ~flight.status.fault
     /\ flight.last = "poll")
      => LET state == flight.status.state IN
         /\ self._state = (IF state.power = "off" THEN "False" ELSE "True")
         /\ self._hvac_mode = (IF state.power = "off" THEN "off"
                               ELSE AbstractOf(state.mode))
         /\ self._target_temperature = state.target_temperature
         /\ self._fan_mode = state.fan_speed
         /\ self._swing_mode = state.swing_mode

\* The setters that send a configuration.
ConfigurationSetters ==
    {"async_set_temperature", "async_set_swing_mode", "async_set_fan_mode",
     "async_set_hvac_mode"}

\* C27: whenever the model is known, the mode _send_configuration selects
\* (the hvac mode when the power is on, the last on operation otherwise) is
\* neither off nor None, and a setter that has just run raised nothing and
\* sent exactly one configuration.
C27_ComposeSucceeds ==
    self._air_condition_model # "None"
      => /\ Selected(self) \notin {"off", "None"}
         /\ op \in ConfigurationSetters
              => /\ raised = "None"
                 /\ Cardinality({i \in 1..Len(calls) :
                        calls[i].name = "send_configuration"}) = 1

\* C28: after a poll that got a snapshot the hvac_mode attribute is the
\* hvac mode the poll computed: off when the snapshot's power is off, the
\* snapshot's operation mode otherwise.
C28_HvacModeAttribute ==
    PollSucceeded
      => /\ self._state_attrs.hvac_mode = self._hvac_mode
         /\ self._state_attrs.hvac_mode = "off" <=> polled.state.power = "off"

====
